---- MODULE Spec2Model ----
(***************************************************************************)
(* State-machine model of backend/controller/user.js: the user controller  *)
(* of the multi-vendor e-commerce backend (registration, login, address    *)
(* management, password change, referral attribution).                     *)
(*                                                                         *)
(* Every handler is an async function.  Node runs the code between two     *)
(* awaits without interruption and may run any other request's code at an  *)
(* await, so each handler is cut into one action per await-to-await        *)
(* segment; a slot of `req` holds the position and the local variables of  *)
(* one request in flight.                                                  *)
(*                                                                         *)
(* Not in the controller file and therefore modelled from the              *)
(* specification's data model and contracts: the User schema (PAN card     *)
(* upper-cased on storage, password hashed on save, comparePassword) and   *)
(* the referral utilities generateReferralCode, verifyReferralCode and     *)
(* updateReferralUsage.                                                    *)
(***************************************************************************)
EXTENDS Integers, Sequences, FiniteSets, TLC

\* ------------------------------------------------------------------ bounds
MaxUsers == 3        \* User documents ever created
MaxAddressIds == 2   \* address sub-document ids ever generated

\* ------------------------------------------------------------------ values
Absent == "absent"   \* an undefined / empty (falsy) request field
AbsentPan == <<>>    \* an empty PAN card string (falsy as well)
NullId == 0          \* null where an ObjectId is expected
NoFile == "nofile"   \* req.file undefined
DefaultAvatar == "defaultAvatar.png"

Slots == {1, 2}      \* requests in flight at the same time
UserIds == 1..MaxUsers
Files == {"f1", "f2"} \* file names the upload directory can hold
Codes == {"c1", "c2", "c3"}
Emails == {"e1"}
Passwords == {"p1", "p2"}
AddressTypes == {"Home", "Office"}
Cities == {"x", "y"}

\* PAN cards are strings whose letters have a case: sequences of characters.
Pans == {<<"p", "1">>, <<"P", "1">>, <<"Q", "2">>, <<"R", "3">>}

UpperChar(c) ==
  CASE c = "p" -> "P"
    [] c = "q" -> "Q"
    [] c = "r" -> "R"
    [] OTHER -> c

\* String.prototype.toUpperCase
ToUpperCase(s) == [i \in DOMAIN s |-> UpperChar(s[i])]

\* An ObjectId is a number here; its string form is a hex string, which has a
\* letter case.  ObjectId.toString() yields the lower-case form; casting a
\* string to an ObjectId (findById, sub-document _id) accepts either case.
IdStrings == [id : 1..(MaxUsers + 1), upper : BOOLEAN]
ObjectIdToString(id) == [id |-> id, upper |-> FALSE]
CastObjectId(s) == s.id

VARIABLES users, referralCodes, uploads, nextUserId, nextAddressId, req

vars == <<users, referralCodes, uploads, nextUserId, nextAddressId, req>>

\* ---------------------------------------------------------------- schema
\* The User schema's setter on panCard (upper-case on storage).
StoredPanCard(panCard) == ToUpperCase(panCard)

\* The User schema's pre-save hook: the password is stored hashed.
HashPassword(password) == <<"hash", password>>

\* userSchema.methods.comparePassword
ComparePassword(stored, password) == stored = HashPassword(password)

\* ------------------------------------------------------ referral utilities
\* ReferralCode.findOne({ code }): index of the first record holding the code, 0 if none.
FindCodeIndex(codes, code) ==
  IF \E i \in DOMAIN codes : codes[i].code = code
  THEN CHOOSE i \in DOMAIN codes :
         /\ codes[i].code = code
         /\ \A j \in DOMAIN codes : codes[j].code = code => i <= j
  ELSE 0

\* verifyReferralCode's null: no referrer.
NoReferrer == [referrerId |-> NullId, referralCode |-> Absent]

\* verifyReferralCode: the referrer behind a code, or null.
VerifyReferralCode(code) ==
  LET i == FindCodeIndex(referralCodes, code)
  IN IF i = 0 THEN NoReferrer
     ELSE [referrerId |-> referralCodes[i].userId, referralCode |-> referralCodes[i].code]

\* generateReferralCode: the codes it may return, none of them issued yet.
FreshCodes == {c \in Codes : FindCodeIndex(referralCodes, c) = 0}

\* A code's usage entries, as the number of entries each redeeming user has:
\* the entries' order and timestamps are left out.
NoUsage == [u \in UserIds |-> 0]

\* updateReferralUsage: one more usage entry on the code's record.
UpdateReferralUsage(codes, code, userId) ==
  LET i == FindCodeIndex(codes, code)
  IN IF i = 0 THEN codes
     ELSE [codes EXCEPT ![i].usage[userId] = @ + 1]

\* ----------------------------------------------------------------- init
Init ==
  /\ users = <<>>
  /\ referralCodes = <<>>
  /\ uploads = {}
  /\ nextUserId = 1
  /\ nextAddressId = 1
  /\ req = [r \in Slots |-> [pc |-> "idle"]]

Free(r) == req[r].pc \in {"idle", "done"}

\* next(new ErrorHandler(...)) / res.status(...).json(...): the request is over.
Respond(route, status, file) ==
  [pc |-> "done", route |-> route, status |-> status, file |-> file]

\* ----------------------------------------------------------- create-user
\* the reply to a registration, with the PAN card of the request it answers
RespondCreateUser(status, file, panCard) ==
  [pc |-> "done", route |-> "create-user", status |-> status, file |-> file,
   panCard |-> panCard]

CompleteBodies ==
  [name : {"n"}, password : {"p1"}, phoneNumber : {"1"}, panCard : Pans,
   gender : {"g"}, email : Emails \cup {Absent},
   inputReferralCode : Codes \cup {Absent}]

ABody ==
  [name |-> "n", password |-> "p1", phoneNumber |-> "1", panCard |-> <<"Q", "2">>,
   gender |-> "g", email |-> Absent, inputReferralCode |-> Absent]

IncompleteBodies ==
  {[ABody EXCEPT !.name = Absent], [ABody EXCEPT !.password = Absent],
   [ABody EXCEPT !.phoneNumber = Absent], [ABody EXCEPT !.panCard = AbsentPan],
   [ABody EXCEPT !.gender = Absent]}

Bodies == CompleteBodies \cup IncompleteBodies

\* line 21
MissingRequired(body) ==
  \/ body.name = Absent
  \/ body.password = Absent
  \/ body.phoneNumber = Absent
  \/ body.panCard = AbsentPan
  \/ body.gender = Absent

\* multer: the name under which an upload is stored, not in use yet.
NewFileName == CHOOSE f \in Files \ uploads : TRUE

\* fs.unlink(`uploads/${filename}`) guarded by if (req.file)
Unlink(stored, file) == stored \ {file}

\* lines 16-41: upload, required fields, referral code verification
CreateUserReceive(r, body, hasFile) ==
  /\ Free(r)
  /\ hasFile => Files \ uploads # {}
  /\ LET file == IF hasFile THEN NewFileName ELSE NoFile
         stored == IF hasFile THEN uploads \cup {file} ELSE uploads
         referrerDetails ==
           IF body.inputReferralCode # Absent
           THEN VerifyReferralCode(body.inputReferralCode)
           ELSE NoReferrer
     IN IF MissingRequired(body)
        THEN /\ uploads' = Unlink(stored, file)
             /\ req' = [req EXCEPT ![r] = RespondCreateUser(400, file, body.panCard)]
        ELSE IF body.inputReferralCode # Absent /\ referrerDetails = NoReferrer
        THEN /\ uploads' = stored
             /\ req' = [req EXCEPT ![r] = RespondCreateUser(400, file, body.panCard)]
        ELSE /\ uploads' = stored
             /\ req' = [req EXCEPT ![r] =
                          [pc |-> "cu_generate", email |-> body.email,
                           password |-> body.password, panCard |-> body.panCard,
                           inputReferralCode |-> body.inputReferralCode,
                           file |-> file, referrerDetails |-> referrerDetails]]
  /\ UNCHANGED <<users, referralCodes, nextUserId, nextAddressId>>

\* line 44: generateReferralCode
CreateUserGenerate(r) ==
  /\ req[r].pc = "cu_generate"
  /\ \E code \in FreshCodes :
       req' = [req EXCEPT ![r] =
                 [pc |-> IF req[r].email # Absent THEN "cu_email" ELSE "cu_pan",
                  newUserReferralCode |-> code] @@ req[r]]
  /\ UNCHANGED <<users, referralCodes, uploads, nextUserId, nextAddressId>>

\* lines 46-61: User.findOne({ email })
CreateUserEmail(r) ==
  /\ req[r].pc = "cu_email"
  /\ IF \E u \in DOMAIN users : users[u].email = req[r].email
     THEN /\ uploads' = Unlink(uploads, req[r].file)
          /\ req' = [req EXCEPT ![r] = RespondCreateUser(400, req[r].file, req[r].panCard)]
     ELSE /\ uploads' = uploads
          /\ req' = [req EXCEPT ![r].pc = "cu_pan"]
  /\ UNCHANGED <<users, referralCodes, nextUserId, nextAddressId>>

\* the lookup with the PAN card as sent
RawPanLookupKey(panCard) == panCard

\* line 64: the key the PAN lookup uses
PanLookupKey(panCard) == ToUpperCase(panCard)

\* lines 63-82: User.findOne({ panCard: panCard.toUpperCase() })
CreateUserPan(r) ==
  /\ req[r].pc = "cu_pan"
  /\ IF \E u \in DOMAIN users : users[u].panCard = PanLookupKey(req[r].panCard)
     THEN /\ uploads' = Unlink(uploads, req[r].file)
          /\ req' = [req EXCEPT ![r] = RespondCreateUser(400, req[r].file, req[r].panCard)]
     ELSE /\ uploads' = uploads
          /\ req' = [req EXCEPT ![r].pc = "cu_create"]
  /\ UNCHANGED <<users, referralCodes, nextUserId, nextAddressId>>

\* the referrer dropped at creation
NoReferredBy(referrerDetails) == NullId

\* line 94
ReferredByOf(referrerDetails) ==
  IF referrerDetails # NoReferrer THEN referrerDetails.referrerId ELSE NullId

\* lines 79-82
AvatarOf(file) == IF file # NoFile THEN file ELSE DefaultAvatar

\* lines 84-95: User.create
CreateUserCreate(r) ==
  /\ req[r].pc = "cu_create"
  /\ nextUserId <= MaxUsers
  /\ users' = users @@ (nextUserId :>
       [email |-> req[r].email,
        password |-> HashPassword(req[r].password),
        panCard |-> StoredPanCard(req[r].panCard),
        avatar |-> AvatarOf(req[r].file),
        referralCode |-> req[r].newUserReferralCode,
        referredBy |-> ReferredByOf(req[r].referrerDetails),
        addresses |-> <<>>])
  /\ nextUserId' = nextUserId + 1
  /\ req' = [req EXCEPT ![r] = [pc |-> "cu_refcode", userId |-> nextUserId] @@ req[r]]
  /\ UNCHANGED <<referralCodes, uploads, nextAddressId>>

\* lines 121-133: User.create throws (a validation or database error)
CreateUserCatch(r) ==
  /\ req[r].pc = "cu_create"
  /\ uploads' = Unlink(uploads, req[r].file)
  /\ req' = [req EXCEPT ![r] = RespondCreateUser(400, req[r].file, req[r].panCard)]
  /\ UNCHANGED <<users, referralCodes, nextUserId, nextAddressId>>

\* lines 97-102: ReferralCode.create
CreateUserReferralCode(r) ==
  /\ req[r].pc = "cu_refcode"
  /\ referralCodes' = Append(referralCodes,
       [code |-> req[r].newUserReferralCode, userId |-> req[r].userId, usage |-> NoUsage])
  /\ req' = [req EXCEPT ![r] =
               IF req[r].referrerDetails # NoReferrer
               THEN [pc |-> "cu_usage"] @@ req[r]
               ELSE RespondCreateUser(201, req[r].file, req[r].panCard)]
  /\ UNCHANGED <<users, uploads, nextUserId, nextAddressId>>

\* lines 104-119: updateReferralUsage, sendToken
CreateUserUsage(r) ==
  /\ req[r].pc = "cu_usage"
  /\ referralCodes' =
       UpdateReferralUsage(referralCodes, req[r].inputReferralCode, req[r].userId)
  /\ req' = [req EXCEPT ![r] = RespondCreateUser(201, req[r].file, req[r].panCard)]
  /\ UNCHANGED <<users, uploads, nextUserId, nextAddressId>>

CreateUserSteps(r) ==
  \/ CreateUserGenerate(r)
  \/ CreateUserEmail(r)
  \/ CreateUserPan(r)
  \/ CreateUserCreate(r)
  \/ CreateUserCatch(r)
  \/ CreateUserReferralCode(r)
  \/ CreateUserUsage(r)

\* --------------------------------------------------------- apply-referral
\* line 453: referral.userId.toString() === userId
IsOwnCode(ownerId, userId) == ObjectIdToString(ownerId) = userId

\* lines 445-455: ReferralCode.findOne({ code }), own-code check
ApplyReferralFindCode(r, referralCode, userId) ==
  /\ Free(r)
  /\ LET i == FindCodeIndex(referralCodes, referralCode)
     IN req' = [req EXCEPT ![r] =
                 IF i = 0 THEN Respond("apply-referral", 400, NoFile)
                 ELSE IF IsOwnCode(referralCodes[i].userId, userId)
                 THEN Respond("apply-referral", 400, NoFile)
                 ELSE [pc |-> "ar_user", referralCode |-> referralCode,
                       userId |-> userId, referrerId |-> referralCodes[i].userId]]
  /\ UNCHANGED <<users, referralCodes, uploads, nextUserId, nextAddressId>>

\* line 463: if (user.referredBy)
AlreadyReferred(user) == user.referredBy # NullId

\* lines 457-465: User.findById(userId), one-time check
ApplyReferralFindUser(r) ==
  /\ req[r].pc = "ar_user"
  /\ LET u == CastObjectId(req[r].userId)
     IN req' = [req EXCEPT ![r] =
                 IF u \notin DOMAIN users THEN Respond("apply-referral", 400, NoFile)
                 ELSE IF AlreadyReferred(users[u])
                 THEN Respond("apply-referral", 400, NoFile)
                 ELSE [req[r] EXCEPT !.pc = "ar_save"]]
  /\ UNCHANGED <<users, referralCodes, uploads, nextUserId, nextAddressId>>

\* lines 467-469: user.referredBy = referral.userId; user.save()
ApplyReferralSave(r) ==
  /\ req[r].pc = "ar_save"
  /\ users' = [users EXCEPT ![CastObjectId(req[r].userId)].referredBy = req[r].referrerId]
  /\ req' = [req EXCEPT ![r].pc = "ar_usage"]
  /\ UNCHANGED <<referralCodes, uploads, nextUserId, nextAddressId>>

\* lines 471-477: updateReferralUsage(referralCode, userId)
ApplyReferralUsage(r) ==
  /\ req[r].pc = "ar_usage"
  /\ referralCodes' =
       UpdateReferralUsage(referralCodes, req[r].referralCode, CastObjectId(req[r].userId))
  /\ req' = [req EXCEPT ![r] = Respond("apply-referral", 200, NoFile)]
  /\ UNCHANGED <<users, uploads, nextUserId, nextAddressId>>

ApplyReferral(r) ==
  \/ \E referralCode \in Codes, userId \in IdStrings :
       ApplyReferralFindCode(r, referralCode, userId)
  \/ ApplyReferralFindUser(r)
  \/ ApplyReferralSave(r)
  \/ ApplyReferralUsage(r)

\* -------------------------------------------------- update-user-addresses
\* JavaScript values as the === operator sees them.  address._id is an
\* ObjectId (an object) read from the store; req.body._id comes from the
\* JSON body: a string, or undefined.
ObjectIdValue(id) == [type |-> "object", id |-> id]
StringValue(id) == [type |-> "string", id |-> id]
Undefined == [type |-> "undefined", id |-> NullId]

\* ===: values of different types are never equal, and two objects are equal
\* only when they are the same object.
StrictEquals(a, b) ==
  /\ a.type = b.type
  /\ a.type # "object"
  /\ a.id = b.id

AddressIds == 1..MaxAddressIds

AddressBodies ==
  [_id : {Undefined} \cup {StringValue(a) : a \in AddressIds},
   addressType : AddressTypes, city : Cities]

\* lines 284-286: index of the first address of the body's type, 0 if none
SameTypeAddress(addresses, body) ==
  IF \E i \in DOMAIN addresses : addresses[i].addressType = body.addressType
  THEN CHOOSE i \in DOMAIN addresses :
         /\ addresses[i].addressType = body.addressType
         /\ \A j \in DOMAIN addresses :
              addresses[j].addressType = body.addressType => i <= j
  ELSE 0

\* lines 293-295: index of the first address whose _id === req.body._id, 0 if none
ExistsAddress(addresses, body) ==
  IF \E i \in DOMAIN addresses : StrictEquals(ObjectIdValue(addresses[i]._id), body._id)
  THEN CHOOSE i \in DOMAIN addresses :
         /\ StrictEquals(ObjectIdValue(addresses[i]._id), body._id)
         /\ \A j \in DOMAIN addresses :
              StrictEquals(ObjectIdValue(addresses[j]._id), body._id) => i <= j
  ELSE 0

\* line 298: Object.assign(existsAddress, req.body)
AssignAddress(address, body) ==
  [address EXCEPT !.addressType = body.addressType, !.city = body.city]

\* line 301: the sub-document that push makes of the body: the _id cast from the
\* body's when it has one, a new ObjectId otherwise.
NewAddress(body, newId) ==
  [_id |-> IF body._id = Undefined THEN newId ELSE body._id.id,
   addressType |-> body.addressType, city |-> body.city]

\* lines 282-302: User.findById, same-type check, change of the loaded document
UpdateAddressesFind(r, caller, body) ==
  /\ Free(r)
  /\ caller \in DOMAIN users
  /\ body._id = Undefined => nextAddressId <= MaxAddressIds
  /\ LET addresses == users[caller].addresses
         i == ExistsAddress(addresses, body)
     IN IF SameTypeAddress(addresses, body) # 0
        THEN /\ req' = [req EXCEPT ![r] = Respond("update-user-addresses", 500, NoFile)]
             /\ nextAddressId' = nextAddressId
        ELSE IF i # 0
        THEN /\ req' = [req EXCEPT ![r] =
                          [pc |-> "ua_save", caller |-> caller, body |-> body,
                           op |-> "set", index |-> i,
                           address |-> AssignAddress(addresses[i], body)]]
             /\ nextAddressId' = nextAddressId
        ELSE /\ req' = [req EXCEPT ![r] =
                          [pc |-> "ua_save", caller |-> caller, body |-> body,
                           op |-> "push", index |-> 0,
                           address |-> NewAddress(body, nextAddressId)]]
             /\ nextAddressId' =
                  IF body._id = Undefined THEN nextAddressId + 1 ELSE nextAddressId
  /\ UNCHANGED <<users, referralCodes, uploads, nextUserId>>

\* lines 304-309: user.save() sends the change of the loaded document: $push
\* of the new element, or $set of the changed element.
UpdateAddressesSave(r) ==
  /\ req[r].pc = "ua_save"
  /\ LET addresses == users[req[r].caller].addresses
     IN users' = [users EXCEPT ![req[r].caller].addresses =
                    IF req[r].op = "push" THEN Append(addresses, req[r].address)
                    ELSE IF req[r].index \in DOMAIN addresses
                    THEN [addresses EXCEPT ![req[r].index] = req[r].address]
                    ELSE addresses]
  /\ req' = [req EXCEPT ![r] =
               [pc |-> "done", route |-> "update-user-addresses", status |-> 200,
                file |-> NoFile]]
  /\ UNCHANGED <<referralCodes, uploads, nextUserId, nextAddressId>>

\* ---------------------------------------------------- delete-user-address
\* lines 322-336: $pull of the address with the id
DeleteUserAddress(r, caller, addressId) ==
  /\ Free(r)
  /\ caller \in DOMAIN users
  /\ users' = [users EXCEPT ![caller].addresses =
                 SelectSeq(@, LAMBDA a : a._id # addressId.id)]
  /\ req' = [req EXCEPT ![r] = Respond("delete-user-address", 200, NoFile)]
  /\ UNCHANGED <<referralCodes, uploads, nextUserId, nextAddressId>>

\* --------------------------------------------------- update-user-password
PasswordBodies ==
  [oldPassword : Passwords, newPassword : Passwords, confirmPassword : Passwords]

\* the new/confirm check left out
NoMismatchCheck(body) == FALSE

\* line 359
PasswordsMismatch(body) == body.newPassword # body.confirmPassword

\* the reply to a password change, with the request it answers
RespondPassword(status, caller, body) ==
  [pc |-> "done", route |-> "update-user-password", status |-> status,
   file |-> NoFile, caller |-> caller, body |-> body]

\* lines 349-364: User.findById, old password check, new/confirm check
UpdatePasswordFind(r, caller, body) ==
  /\ Free(r)
  /\ caller \in DOMAIN users
  /\ req' = [req EXCEPT ![r] =
               IF ~ComparePassword(users[caller].password, body.oldPassword)
               THEN RespondPassword(400, caller, body)
               ELSE IF PasswordsMismatch(body)
               THEN RespondPassword(400, caller, body)
               ELSE [pc |-> "up_save", caller |-> caller, body |-> body]]
  /\ UNCHANGED <<users, referralCodes, uploads, nextUserId, nextAddressId>>

\* lines 364-371: user.password = newPassword; user.save()
UpdatePasswordSave(r) ==
  /\ req[r].pc = "up_save"
  /\ users' = [users EXCEPT ![req[r].caller].password =
                 HashPassword(req[r].body.newPassword)]
  /\ req' = [req EXCEPT ![r] = RespondPassword(200, req[r].caller, req[r].body)]
  /\ UNCHANGED <<referralCodes, uploads, nextUserId, nextAddressId>>

\* ------------------------------------------------------------- login-user
\* User.findOne({ email }): the first user with the email, NullId if none
FindUserByEmail(us, email) ==
  IF \E u \in DOMAIN us : us[u].email = email
  THEN CHOOSE u \in DOMAIN us :
         us[u].email = email /\ \A v \in DOMAIN us : us[v].email = email => u <= v
  ELSE NullId

\* lines 141-161: the status login-user answers with
LoginStatus(us, email, password) ==
  IF email = Absent \/ password = Absent THEN 400
  ELSE IF FindUserByEmail(us, email) = NullId THEN 400
  ELSE IF ~ComparePassword(us[FindUserByEmail(us, email)].password, password) THEN 400
  ELSE 201

LoginUser(r, email, password) ==
  /\ Free(r)
  /\ req' = [req EXCEPT ![r] =
               [pc |-> "done", route |-> "login-user",
                status |-> LoginStatus(users, email, password), file |-> NoFile,
                email |-> email, password |-> password]]
  /\ UNCHANGED <<users, referralCodes, uploads, nextUserId, nextAddressId>>

\* ------------------------------------------------------- specifications
\* The store after three registrations served one after the other, none
\* with a referral code or an upload.  SpecSeq reaches this store.
RegisteredUser(email, panCard, code) ==
  [email |-> email, password |-> HashPassword("p1"), panCard |-> panCard,
   avatar |-> DefaultAvatar, referralCode |-> code, referredBy |-> NullId,
   addresses |-> <<>>]

InitRegistered ==
  /\ users = <<RegisteredUser("e1", <<"P", "1">>, "c1"),
               RegisteredUser(Absent, <<"Q", "2">>, "c2"),
               RegisteredUser(Absent, <<"R", "3">>, "c3")>>
  /\ referralCodes = <<[code |-> "c1", userId |-> 1, usage |-> NoUsage],
                       [code |-> "c2", userId |-> 2, usage |-> NoUsage],
                       [code |-> "c3", userId |-> 3, usage |-> NoUsage]>>
  /\ uploads = {}
  /\ nextUserId = 4
  /\ nextAddressId = 1
  /\ req = [r \in Slots |-> [pc |-> "idle"]]

\* Registrations served one at a time, from the empty store.
NextSeq ==
  \/ \E body \in Bodies, hasFile \in BOOLEAN : CreateUserReceive(1, body, hasFile)
  \/ CreateUserSteps(1)

SpecSeq == Init /\ [][NextSeq]_vars

\* Registrations in flight together, from the empty store; the requests carry
\* the required fields only (no email, no referral code, no upload), so
\* the steps those fields bring are left out.
RequiredOnlyBodies ==
  {b \in CompleteBodies : b.email = Absent /\ b.inputReferralCode = Absent}

NextRegister ==
  \E r \in Slots :
    \/ \E body \in RequiredOnlyBodies : CreateUserReceive(r, body, FALSE)
    \/ CreateUserGenerate(r)
    \/ CreateUserPan(r)
    \/ CreateUserCreate(r)
    \/ CreateUserCatch(r)
    \/ CreateUserReferralCode(r)

SpecRegister == Init /\ [][NextRegister]_vars

\* Referral redemptions in flight together, over three registered users.
Next == \E r \in Slots : ApplyReferral(r)

Spec == InitRegistered /\ [][Next]_vars

\* isAuthenticated: the user that holds a session token.
LoggedIn == {1}

\* Address changes in flight together, over the registered users.
NextAddr ==
  \E r \in Slots :
    \/ \E caller \in LoggedIn, body \in AddressBodies : UpdateAddressesFind(r, caller, body)
    \/ UpdateAddressesSave(r)
    \/ \E caller \in LoggedIn, a \in AddressIds :
         DeleteUserAddress(r, caller, StringValue(a))

SpecAddr == InitRegistered /\ [][NextAddr]_vars

\* Password changes and logins in flight together, over the registered users.
NextPwd ==
  \E r \in Slots :
    \/ \E caller \in LoggedIn, body \in PasswordBodies : UpdatePasswordFind(r, caller, body)
    \/ UpdatePasswordSave(r)
    \/ \E email \in Emails \cup {Absent, "nobody"}, password \in Passwords \cup {Absent} :
         LoginUser(r, email, password)

SpecPwd == InitRegistered /\ [][NextPwd]_vars

\* ================================================================ claims
InFlightApply(r) == req[r].pc \in {"ar_user", "ar_save", "ar_usage"}

\* C1: a user's referredBy, once non-null, is never changed: a referral
\* redemption for a user who already has a referrer does not overwrite it.
C1_ReferredBySetOnce ==
  [][\A u \in DOMAIN users :
       users[u].referredBy # NullId => users'[u].referredBy = users[u].referredBy]_vars

\* C2: no apply-referral whose code belongs to the target user gets past the
\* own-code check, and no user has referredBy equal to their own id.
C2_NoSelfReferral ==
  /\ \A r \in Slots :
       InFlightApply(r) => CastObjectId(req[r].userId) # req[r].referrerId
  /\ \A u \in DOMAIN users : users[u].referredBy # u

OneAddressPerType(user) ==
  \A i, j \in DOMAIN user.addresses :
    i # j => user.addresses[i].addressType # user.addresses[j].addressType

\* C3: every user holds at most one address per addressType, and an
\* update-user-addresses request whose addressType the caller already has is
\* rejected and leaves the addresses unchanged.
C3_OneAddressPerType ==
  [][/\ \A u \in DOMAIN users : OneAddressPerType(users'[u])
     /\ \A r \in Slots :
          (req'[r] # req[r] /\ req'[r].pc = "done"
             /\ req'[r].route = "update-user-addresses" /\ req'[r].status # 200)
          => users' = users]_vars

C5_PanUniqueUpToCase ==
  [][/\ \A u, v \in DOMAIN users' :
          u # v => ToUpperCase(users'[u].panCard) # ToUpperCase(users'[v].panCard)
     /\ \A r \in Slots :
          (req[r].pc = "cu_pan"
             /\ \E u \in DOMAIN users :
                  ToUpperCase(users[u].panCard) = ToUpperCase(req[r].panCard))
          => (req'[r].pc = "done" /\ req'[r].status = 400 /\ users' = users)]_vars

\* C5's case: a user holds the PAN card P1, and a registration sent with p1
\* has been answered with a 400.
C5_Witness ==
  /\ \E u \in DOMAIN users : users[u].panCard = <<"P", "1">>
  /\ req[1].pc = "done" /\ req[1].route = "create-user"
  /\ req[1].panCard = <<"p", "1">> /\ req[1].status = 400

\* C6: whenever a create-user request that carries an upload is rejected, the
\* uploaded file is deleted.
C6_RejectedUploadDeleted ==
  [][\A r \in Slots :
       (req'[r] # req[r] /\ req'[r].pc = "done" /\ req'[r].route = "create-user"
          /\ req'[r].status = 400 /\ req'[r].file # NoFile)
       => req'[r].file \notin uploads']_vars

\* C7: a registration with a referral code that resolves to user A and that
\* succeeds leaves the new user B with referredBy = A and one more usage
\* entry for B on A's record of that code; no step removes a usage entry.
C7_ReferralRecorded ==
  [][/\ \A r \in Slots :
          (req[r].pc = "cu_usage" /\ req'[r].pc = "done") =>
            /\ req'[r].status = 201
            /\ users'[req[r].userId].referredBy = req[r].referrerDetails.referrerId
            /\ \E i \in DOMAIN referralCodes :
                 /\ referralCodes[i].code = req[r].inputReferralCode
                 /\ referralCodes[i].userId = req[r].referrerDetails.referrerId
                 /\ referralCodes'[i].usage[req[r].userId] =
                      referralCodes[i].usage[req[r].userId] + 1
     /\ \A i \in DOMAIN referralCodes, u \in UserIds :
          /\ i \in DOMAIN referralCodes'
          /\ referralCodes'[i].usage[u] >= referralCodes[i].usage[u]]_vars

\* C7's case: two registrants have redeemed the same code; both are referred
\* by its owner and both have a usage entry on it.
C7_Witness ==
  \E i \in DOMAIN referralCodes : \E b, c \in DOMAIN users :
    /\ b # c
    /\ referralCodes[i].usage[b] = 1 /\ referralCodes[i].usage[c] = 1
    /\ users[b].referredBy = referralCodes[i].userId
    /\ users[c].referredBy = referralCodes[i].userId
    /\ \A r \in Slots : req[r].pc \in {"idle", "done"}

PasswordReply(r) ==
  /\ req'[r] # req[r]
  /\ req'[r].pc = "done"
  /\ req'[r].route = "update-user-password"

C9_MergeById ==
  [][\A r \in Slots :
       (req[r].pc = "ua_save" /\ req'[r].pc = "done") =>
         LET body == req[r].body
             old == users[req[r].caller].addresses
             new == users'[req[r].caller].addresses
         IN IF body._id # Undefined /\ \E i \in DOMAIN old : old[i]._id = body._id.id
            THEN /\ Len(new) = Len(old)
                 /\ \A i \in DOMAIN old :
                      old[i]._id # body._id.id => new[i] = old[i]
                 /\ \E i \in DOMAIN old :
                      old[i]._id = body._id.id /\ new[i] = AssignAddress(old[i], body)
            ELSE Len(new) = Len(old) + 1]_vars

\* C10: every usage entry on a ReferralCode for a user u goes with
\* u.referredBy being the owner of that code.
C10_UsageMatchesReferredBy ==
  \A i \in DOMAIN referralCodes : \A u \in UserIds :
    referralCodes[i].usage[u] > 0 =>
      u \in DOMAIN users /\ users[u].referredBy = referralCodes[i].userId

====
